---------------------------- MODULE Spec2Model ----------------------------
(***************************************************************************)
(* Model of the drag-file subsystem of the Pawkit desktop shell            *)
(* (packages/desktop/src-tauri/src/lib.rs): the filename sanitizer, the    *)
(* Plate-JSON node renderer, the HTML fallback stripper, the format        *)
(* detector and the commands that write and delete files in the            *)
(* "pawkit-drag" temp directory; of the portal window and its toggle; and  *)
(* of the loop that waits for the sidecar server                           *)
(* (packages/desktop/src-tauri/src/server.rs).                             *)
(*                                                                         *)
(* A Rust string is modelled as a sequence of one-character strings, so    *)
(* that taking, trimming, replacing and matching are computed character    *)
(* by character as the code does.                                          *)
(***************************************************************************)
EXTENDS Integers, Sequences, FiniteSets, TLC

VARIABLES
    phase,        \* position of the driver of the pure-function specifications
    name,         \* argument of sanitize_filename
    sanitized,    \* sanitize_filename(name)
    resanitized,  \* sanitize_filename(sanitized)
    html,         \* argument of strip_html_to_markdown
    stripped,     \* strip_html_to_markdown(html)
    content,      \* the content of a note, as given to create_note_file
    nodes,        \* the parsed top-level nodes of content
    idx,          \* how many of nodes the loop has gone through
    md,           \* the rendering of the node of the last iteration
    result,       \* the text built by the loop
    markdown,     \* the converted content (clean_content)
    files,        \* the file system: the content of every existing file, by path
    dirExists,    \* whether the workspace directory exists
    call,         \* the last command called, with its arguments
    ret,          \* what the last command returned
    calls,        \* how many commands were called
    tasks,        \* the commands running at the same time, each with its position
    attempt,      \* wait_for_server: the attempt of the loop
    response,     \* wait_for_server: what the last poll got
    polls,        \* wait_for_server: how many polls were sent
    sleeps,       \* wait_for_server: how many delays were slept
    wpc,          \* wait_for_server: the position in the loop
    portal,       \* the window labelled "portal": none, hidden or visible
    windows,      \* how many portal windows were built
    startup,      \* the task of setup that builds the portal: pending or done
    event,        \* the last event handled for the portal
    events        \* how many events were handled

vars == <<phase, name, sanitized, resanitized, html, stripped,
          content, nodes, idx, md, result, markdown,
          files, dirExists, call, ret, calls,
          tasks, attempt, response, polls, sleeps, wpc,
          portal, windows, startup, event, events>>

sanitizeVars == <<name, sanitized, resanitized>>
stripVars == <<html, stripped>>
renderVars == <<content, nodes, idx, md, result, markdown>>
commandVars == <<files, dirExists, call, ret, calls>>
raceVars == <<tasks>>
serverVars == <<attempt, response, polls, sleeps, wpc>>
portalVars == <<portal, windows, startup, event, events>>

\* The variables of a driver that is not the one running.
SanitizeIdle == name = <<>> /\ sanitized = <<>> /\ resanitized = <<>>
StripIdle == html = <<>> /\ stripped = <<>>
RenderIdle ==
    /\ content = <<>>
    /\ nodes = <<>>
    /\ idx = 0
    /\ md = <<>>
    /\ result = <<>>
    /\ markdown = <<>>
CommandsIdle ==
    /\ files = <<>>
    /\ dirExists = FALSE
    /\ call = <<>>
    /\ ret = <<>>
    /\ calls = 0
RaceIdle == tasks = <<>>
ServerIdle ==
    /\ attempt = 0
    /\ response = "none"
    /\ polls = 0
    /\ sleeps = 0
    /\ wpc = "idle"
PortalIdle ==
    /\ portal = "none"
    /\ windows = 0
    /\ startup = "idle"
    /\ event = "none"
    /\ events = 0

---------------------------------------------------------------------------
(* Strings *)

\* A string literal as the sequence of its characters.
Chars(str) == [i \in 1..Len(str) |-> SubSeq(str, i, i)]

\* The sequences over S of length at most n.
SeqsUpTo(S, n) == UNION {[1..k -> S] : k \in 0..n}

\* The sequences over S of length 1 to n.
NonEmptySeqs(S, n) == UNION {[1..k -> S] : k \in 1..n}

\* The texts of ts with sep between them.
RECURSIVE Join(_, _)
Join(ts, sep) ==
    IF ts = <<>> THEN <<>>
    ELSE Head(ts) \o (IF Len(ts) > 1 THEN sep \o Join(Tail(ts), sep) ELSE <<>>)

\* The string literals of ps one after the other, as one text.
RECURSIVE Concat(_)
Concat(ps) == IF ps = <<>> THEN <<>> ELSE Chars(Head(ps)) \o Concat(Tail(ps))

\* n copies of the character c.
Repeat(c, n) == [i \in 1..n |-> c]

SetMin(S) == CHOOSE x \in S : \A y \in S : x <= y
SetMax(S) == CHOOSE x \in S : \A y \in S : x >= y

\* char::is_whitespace on the characters the model uses.
IsWhitespace(c) == c \in {" ", "\t", "\n", "\r", "\f"}

\* str::trim: the string without its leading and trailing whitespace.
Trim(s) ==
    LET keep == {i \in 1..Len(s) : ~IsWhitespace(s[i])}
    IN  IF keep = {} THEN <<>> ELSE SubSeq(s, SetMin(keep), SetMax(keep))

\* Iterator::take(n): the first n characters (all of them when fewer).
Take(s, n) == SubSeq(s, 1, IF Len(s) < n THEN Len(s) ELSE n)

---------------------------------------------------------------------------
(* sanitize_filename *)

\* .take(100)
NameLimit == 100

\* The characters the match arm of sanitize_filename replaces.
ForbiddenChars == {"/", "\\", ":", "*", "?", "\"", "<", ">", "|"}

\* The closure of .map(): a forbidden character becomes '_'.
SanitizeChar(c) == IF c \in ForbiddenChars THEN "_" ELSE c

MapChars(s) == [i \in 1..Len(s) |-> SanitizeChar(s[i])]

\* A sanitizer that trims before it truncates.
sanitize_trim_first(s) == Take(MapChars(Trim(s)), NameLimit)

\* A sanitizer whose match arm misses the backslash.
sanitize_no_backslash(s) ==
    Trim(Take([i \in 1..Len(s) |-> IF s[i] = "\\" THEN s[i] ELSE SanitizeChar(s[i])],
              NameLimit))

\* name.chars().map(..).take(100).collect::<String>().trim().to_string()
sanitize_filename(s) == Trim(Take(MapChars(s), NameLimit))

---------------------------------------------------------------------------
(* strip_html_to_markdown *)

\* Whether pat occurs in s at position i.
MatchAt(s, pat, i) ==
    /\ i + Len(pat) - 1 <= Len(s)
    /\ SubSeq(s, i, i + Len(pat) - 1) = pat

\* Whether pat occurs in s.
Contains(s, pat) == \E i \in 1..(Len(s) + 1) : MatchAt(s, pat, i)

\* s from position i on, with the occurrences of pat replaced: the text up
\* to the next occurrence is kept, and the search goes on after it.
RECURSIVE ReplaceFrom(_, _, _, _)
ReplaceFrom(s, pat, rep, i) ==
    LET found == {j \in i..Len(s) : MatchAt(s, pat, j)}
    IN  IF found = {} THEN SubSeq(s, i, Len(s))
        ELSE SubSeq(s, i, SetMin(found) - 1) \o rep
             \o ReplaceFrom(s, pat, rep, SetMin(found) + Len(pat))

\* str::replace: every non-overlapping occurrence of pat, found from the
\* left, replaced by rep.
Replace(s, pat, rep) == ReplaceFrom(s, pat, rep, 1)

\* The tag substitutions, in the order of the code.
TagSubstitutions ==
    << <<"<br>", "\n">>, <<"<br/>", "\n">>, <<"<br />", "\n">>,
       <<"</p>", "\n\n">>, <<"<p>", "">>, <<"</div>", "\n">>, <<"<div>", "">>,
       <<"<strong>", "**">>, <<"</strong>", "**">>, <<"<b>", "**">>, <<"</b>", "**">>,
       <<"<em>", "_">>, <<"</em>", "_">>, <<"<i>", "_">>, <<"</i>", "_">> >>

\* The entity substitutions, in the order of the code.
EntitySubstitutions ==
    << <<"&nbsp;", " ">>, <<"&amp;", "&">>, <<"&lt;", "<">>, <<"&gt;", ">">>,
       <<"&quot;", "\"">> >>

\* The substitutions subs[1..n] applied to s one after the other.
RECURSIVE ApplySubstitutions(_, _, _)
ApplySubstitutions(s, subs, n) ==
    IF n = 0 THEN s
    ELSE Replace(ApplySubstitutions(s, subs, n - 1),
                 Chars(subs[n][1]), Chars(subs[n][2]))

\* The end of the match of <[^>]+> that starts at i, or 0 when there is none:
\* a '<', one or more characters other than '>', then the first '>'.
TagEnd(s, i) ==
    IF s[i] # "<" THEN 0
    ELSE LET closes == {j \in (i + 1)..Len(s) : s[j] = ">"}
         IN  IF closes = {} \/ SetMin(closes) = i + 1 THEN 0 ELSE SetMin(closes)

\* s from position i on, without its tags: the text up to the next match
\* is kept, and the search goes on after the match.
RECURSIVE RemoveTagsFrom(_, _)
RemoveTagsFrom(s, i) ==
    LET found == {j \in i..Len(s) : TagEnd(s, j) # 0}
    IN  IF found = {} THEN SubSeq(s, i, Len(s))
        ELSE SubSeq(s, i, SetMin(found) - 1)
             \o RemoveTagsFrom(s, TagEnd(s, SetMin(found)) + 1)

\* tag_regex.replace_all(&result, ""): one pass from the left over the
\* non-overlapping matches of <[^>]+>.
RemoveTags(s) == RemoveTagsFrom(s, 1)

\* The length of the run of newlines that starts at i.
NewlineRun(s, i) ==
    LET others == {j \in i..Len(s) : s[j] # "\n"}
    IN  IF others = {} THEN Len(s) + 1 - i ELSE SetMin(others) - i

\* s from position i on, with its runs collapsed: the text up to the next
\* run of three or more is kept, and the search goes on after the run.
RECURSIVE CollapseNewlinesFrom(_, _)
CollapseNewlinesFrom(s, i) ==
    LET found == {j \in i..Len(s) : NewlineRun(s, j) >= 3}
    IN  IF found = {} THEN SubSeq(s, i, Len(s))
        ELSE SubSeq(s, i, SetMin(found) - 1) \o <<"\n", "\n">>
             \o CollapseNewlinesFrom(s, SetMin(found) + NewlineRun(s, SetMin(found)))

\* newline_regex.replace_all(&result, "\n\n"): a run of three or more
\* newlines becomes two.
CollapseNewlines(s) == CollapseNewlinesFrom(s, 1)

\* A stripper that removes the tags before it un-escapes the entities.
strip_tags_first(h) ==
    Trim(CollapseNewlines(
        ApplySubstitutions(
            RemoveTags(ApplySubstitutions(h, TagSubstitutions, Len(TagSubstitutions))),
            EntitySubstitutions, Len(EntitySubstitutions))))

strip_html_to_markdown(h) ==
    Trim(CollapseNewlines(RemoveTags(
        ApplySubstitutions(
            ApplySubstitutions(h, TagSubstitutions, Len(TagSubstitutions)),
            EntitySubstitutions, Len(EntitySubstitutions)))))

---------------------------------------------------------------------------
(* serde_json::from_str::<Vec<serde_json::Value>>: the JSON text of the   *)
(* content parsed into values. A value is a record: k is its kind, s the  *)
(* characters of a string or a number, b a boolean, a the elements of an  *)
(* array or the members (key, val) of an object in the order of the text. *)

JNull == [k |-> "null", s |-> <<>>, b |-> FALSE, a |-> <<>>]
JBool(x) == [k |-> "bool", s |-> <<>>, b |-> x, a |-> <<>>]
JNum(digits) == [k |-> "num", s |-> digits, b |-> FALSE, a |-> <<>>]
JStr(chars) == [k |-> "str", s |-> chars, b |-> FALSE, a |-> <<>>]
JArr(elements) == [k |-> "arr", s |-> <<>>, b |-> FALSE, a |-> elements]
JObj(members) == [k |-> "obj", s |-> <<>>, b |-> FALSE, a |-> members]

\* The outcome of parsing one value: the value and the position after it.
Parsed(v, i) == [ok |-> TRUE, v |-> v, i |-> i]
ParseError == [ok |-> FALSE, v |-> JNull, i |-> 0]

JsonWhitespace == {" ", "\n", "\t", "\r"}
Digits == {"0", "1", "2", "3", "4", "5", "6", "7", "8", "9"}

\* The first position from i on that holds no JSON whitespace.
SkipWhitespace(s, i) ==
    LET rest == {j \in i..Len(s) : s[j] \notin JsonWhitespace}
    IN  IF rest = {} THEN Len(s) + 1 ELSE SetMin(rest)

\* The character an escape sequence \c stands for (\b and \uXXXX are not
\* among the drawn inputs).
Unescape(c) ==
    CASE c = "n" -> "\n"
      [] c = "t" -> "\t"
      [] c = "r" -> "\r"
      [] c = "f" -> "\f"
      [] OTHER -> c

\* The string whose opening quote is before j; acc is what was read of it.
RECURSIVE ParseStringFrom(_, _, _)
ParseStringFrom(s, j, acc) ==
    IF j > Len(s) THEN ParseError
    ELSE IF s[j] = "\"" THEN Parsed(JStr(acc), j + 1)
    ELSE IF s[j] = "\\"
         THEN IF j + 1 > Len(s) \/ s[j + 1] \notin {"\"", "\\", "/", "n", "t", "r", "f"}
              THEN ParseError
              ELSE ParseStringFrom(s, j + 2, Append(acc, Unescape(s[j + 1])))
    ELSE IF s[j] \in {"\n", "\t", "\r", "\f"} THEN ParseError
    ELSE ParseStringFrom(s, j + 1, Append(acc, s[j]))

\* The first position from i on that holds no digit.
DigitsEnd(s, i) ==
    LET rest == {j \in i..Len(s) : s[j] \notin Digits}
    IN  IF rest = {} THEN Len(s) + 1 ELSE SetMin(rest)

\* A number: an optional '-', then 0 or a run of digits that does not start
\* with 0, then an optional fraction.
ParseNumber(s, i) ==
    LET first == IF s[i] = "-" THEN i + 1 ELSE i
        intEnd == IF first <= Len(s) /\ s[first] = "0" THEN first + 1
                  ELSE DigitsEnd(s, first)
        fracEnd == IF intEnd <= Len(s) /\ s[intEnd] = "." THEN DigitsEnd(s, intEnd + 1)
                   ELSE intEnd
    IN  IF intEnd = first \/ fracEnd = intEnd + 1 THEN ParseError
        ELSE IF fracEnd <= Len(s) /\ s[fracEnd] \in Digits THEN ParseError
        ELSE Parsed(JNum(SubSeq(s, i, fracEnd - 1)), fracEnd)

RECURSIVE ParseValue(_, _)
RECURSIVE ParseElements(_, _, _)
RECURSIVE ParseMembers(_, _, _)

\* The value that starts at the first non-blank position from i on.
ParseValue(s, i) ==
    LET p == SkipWhitespace(s, i)
    IN  IF p > Len(s) THEN ParseError
        ELSE CASE s[p] = "n" ->
                    IF MatchAt(s, Chars("null"), p) THEN Parsed(JNull, p + 4)
                    ELSE ParseError
               [] s[p] = "t" ->
                    IF MatchAt(s, Chars("true"), p) THEN Parsed(JBool(TRUE), p + 4)
                    ELSE ParseError
               [] s[p] = "f" ->
                    IF MatchAt(s, Chars("false"), p) THEN Parsed(JBool(FALSE), p + 5)
                    ELSE ParseError
               [] s[p] = "\"" -> ParseStringFrom(s, p + 1, <<>>)
               [] s[p] = "[" ->
                    LET q == SkipWhitespace(s, p + 1)
                    IN  IF q <= Len(s) /\ s[q] = "]" THEN Parsed(JArr(<<>>), q + 1)
                        ELSE ParseElements(s, p + 1, <<>>)
               [] s[p] = "{" ->
                    LET q == SkipWhitespace(s, p + 1)
                    IN  IF q <= Len(s) /\ s[q] = "}" THEN Parsed(JObj(<<>>), q + 1)
                        ELSE ParseMembers(s, p + 1, <<>>)
               [] s[p] \in Digits \cup {"-"} -> ParseNumber(s, p)
               [] OTHER -> ParseError

\* The rest of an array: a value, then ',' and the rest, or ']'.
ParseElements(s, i, acc) ==
    LET r == ParseValue(s, i)
        p == SkipWhitespace(s, r.i)
    IN  IF ~r.ok \/ p > Len(s) THEN ParseError
        ELSE IF s[p] = "]" THEN Parsed(JArr(Append(acc, r.v)), p + 1)
        ELSE IF s[p] = "," THEN ParseElements(s, p + 1, Append(acc, r.v))
        ELSE ParseError

\* The rest of an object: a string key, ':', a value, then ',' and the
\* rest, or '}'.
ParseMembers(s, i, acc) ==
    LET kp == SkipWhitespace(s, i)
        key == IF kp <= Len(s) /\ s[kp] = "\"" THEN ParseStringFrom(s, kp + 1, <<>>)
               ELSE ParseError
        cp == SkipWhitespace(s, key.i)
        r == IF key.ok /\ cp <= Len(s) /\ s[cp] = ":" THEN ParseValue(s, cp + 1)
             ELSE ParseError
        p == SkipWhitespace(s, r.i)
        members == Append(acc, [key |-> key.v.s, val |-> r.v])
    IN  IF ~r.ok \/ p > Len(s) THEN ParseError
        ELSE IF s[p] = "}" THEN Parsed(JObj(members), p + 1)
        ELSE IF s[p] = "," THEN ParseMembers(s, p + 1, members)
        ELSE ParseError

\* serde_json::from_str into a Vec: the text must be one array, with
\* nothing but whitespace around it.
ParseDocument(s) ==
    LET p == SkipWhitespace(s, 1)
        r == IF p <= Len(s) /\ s[p] = "[" THEN ParseValue(s, p) ELSE ParseError
    IN  IF r.ok /\ SkipWhitespace(s, r.i) > Len(s) THEN r ELSE ParseError

---------------------------------------------------------------------------
(* plate_node_to_markdown *)

None == [some |-> FALSE, v |-> JNull]
Some(v) == [some |-> TRUE, v |-> v]

\* Value::get(key): the member of an object with that key (the last one in
\* the text, as a later insert overwrites an earlier one); None for a value
\* that is no object.
Get(node, key) ==
    IF node.k # "obj" THEN None
    ELSE LET at == {i \in 1..Len(node.a) : node.a[i].key = Chars(key)}
         IN  IF at = {} THEN None ELSE Some(node.a[SetMax(at)].val)

\* node.get(key).and_then(|v| v.as_bool()).unwrap_or(false)
GetBool(node, key) ==
    LET o == Get(node, key) IN o.some /\ o.v.k = "bool" /\ o.v.b

\* Whether node.get(key).and_then(|v| v.as_str()) is Some.
HasStr(node, key) ==
    LET o == Get(node, key) IN o.some /\ o.v.k = "str"

\* node.get(key).and_then(|v| v.as_str()).unwrap_or(default)
GetStr(node, key, default) ==
    IF HasStr(node, key) THEN Get(node, key).v.s ELSE Chars(default)

\* format!("{d}{}{d}", s)
Wrap(d, s) == d \o s \o d

\* The backquote character (a string literal cannot hold it alone).
Backquote == SubSeq("`'", 1, 1)

\* The marks in the order of the if statements, each with its delimiter.
Marks == <<"bold", "italic", "code", "strikethrough", "highlight">>
Delimiter == <<Chars("**"), Chars("*"), <<Backquote>>, Chars("~~"), Chars("==")>>

\* The text after the first n if statements.
RECURSIVE ApplyMarks(_, _, _)
ApplyMarks(node, text, n) ==
    IF n = 0 THEN text
    ELSE LET wrapped == ApplyMarks(node, text, n - 1)
         IN  IF GetBool(node, Marks[n]) THEN Wrap(Delimiter[n], wrapped) ELSE wrapped

\* The first n fields of the node gone through in their order, each mark
\* wrapping the text where its field stands.
RECURSIVE ApplyMarksInFieldOrder(_, _, _)
ApplyMarksInFieldOrder(node, text, n) ==
    IF n = 0 THEN text
    ELSE LET wrapped == ApplyMarksInFieldOrder(node, text, n - 1)
             at == {i \in 1..Len(Marks) : node.a[n].key = Chars(Marks[i])}
         IN  IF at # {} /\ node.a[n].val.k = "bool" /\ node.a[n].val.b
             THEN Wrap(Delimiter[CHOOSE i \in at : TRUE], wrapped)
             ELSE wrapped

\* A text-node branch that takes the marks in the order of the fields.
RenderText_field_order(node) ==
    ApplyMarksInFieldOrder(node, Get(node, "text").v.s, Len(node.a))

\* The if statements from the n-th on, the last one applied first.
RECURSIVE ApplyMarksFrom(_, _, _)
ApplyMarksFrom(node, text, n) ==
    IF n > Len(Marks) THEN text
    ELSE LET wrapped == ApplyMarksFrom(node, text, n + 1)
         IN  IF GetBool(node, Marks[n]) THEN Wrap(Delimiter[n], wrapped) ELSE wrapped

\* A text-node branch that wraps for highlight first and for bold last.
RenderText_reversed(node) == ApplyMarksFrom(node, Get(node, "text").v.s, 1)

\* The text-node branch.
RenderText(node) == ApplyMarks(node, Get(node, "text").v.s, Len(Marks))

\* str::lines: the pieces between line feeds, without the final empty one
\* and without a carriage return before a line feed.
RECURSIVE LinesFrom(_, _)
LinesFrom(s, i) ==
    IF i > Len(s) THEN <<>>
    ELSE LET feeds == {j \in i..Len(s) : s[j] = "\n"}
         IN  IF feeds = {} THEN <<SubSeq(s, i, Len(s))>>
             ELSE LET j == SetMin(feeds)
                      e == IF j > i /\ s[j - 1] = "\r" THEN j - 2 ELSE j - 1
                  IN  <<SubSeq(s, i, e)>> \o LinesFrom(s, j + 1)

Lines(s) == LinesFrom(s, 1)

\* .map(|line| format!("> {}", line)).collect::<Vec<_>>().join("\n")
RECURSIVE QuoteLines(_)
QuoteLines(ls) ==
    IF ls = <<>> THEN <<>>
    ELSE Chars("> ") \o Head(ls)
         \o (IF Len(ls) > 1 THEN <<"\n">> \o QuoteLines(Tail(ls)) ELSE <<>>)

HeadingTypes == <<"h1", "h2", "h3", "h4", "h5", "h6">>

\* A default arm that drops the children.
RenderOther_dropped(node, children_md) == <<>>

\* The default arm of the match.
RenderOther(node, children_md) == children_md

\* The match on node_type, children_md being the rendering of the children.
RenderElement(node, children_md) ==
    LET node_type == GetStr(node, "type", "")
        is(t) == node_type = Chars(t)
    IN  CASE is("p") -> children_md \o <<"\n">>
          [] \E n \in 1..Len(HeadingTypes) : is(HeadingTypes[n]) ->
                LET level == CHOOSE n \in 1..Len(HeadingTypes) : is(HeadingTypes[n])
                IN  Repeat("#", level) \o <<" ">> \o children_md \o <<"\n">>
          [] is("blockquote") -> QuoteLines(Lines(children_md)) \o <<"\n">>
          [] is("ul") \/ is("ol") -> children_md
          [] is("li") \/ is("lic") -> Chars("- ") \o Trim(children_md) \o <<"\n">>
          [] is("action_item") ->
                Chars("- ") \o Chars(IF GetBool(node, "checked") THEN "[x]" ELSE "[ ]")
                \o <<" ">> \o Trim(children_md) \o <<"\n">>
          [] is("code_block") ->
                Repeat(Backquote, 3) \o GetStr(node, "lang", "") \o <<"\n">>
                \o Trim(children_md) \o <<"\n">> \o Repeat(Backquote, 3) \o <<"\n">>
          [] is("code_line") -> children_md
          [] is("link") \/ is("a") ->
                <<"[">> \o children_md \o Chars("](") \o GetStr(node, "url", "")
                \o <<")">>
          [] is("hr") -> Chars("---\n")
          [] is("img") \/ is("image") ->
                Chars("![") \o GetStr(node, "alt", "") \o Chars("](")
                \o GetStr(node, "url", "") \o Chars(")\n")
          [] is("mention") -> Chars("[[") \o GetStr(node, "value", "") \o Chars("]]")
          [] is("callout") ->
                Chars("> [!") \o GetStr(node, "variant", "note") \o Chars("]\n")
                \o QuoteLines(Lines(children_md)) \o <<"\n">>
          [] OTHER -> RenderOther(node, children_md)

RECURSIVE plate_node_to_markdown(_)
RECURSIVE RenderNodes(_)

\* arr.iter().map(|c| plate_node_to_markdown(c, depth + 1)).collect().join("")
RenderNodes(arr) ==
    IF arr = <<>> THEN <<>>
    ELSE plate_node_to_markdown(Head(arr)) \o RenderNodes(Tail(arr))

\* children.map(..).unwrap_or_default(): the children when they are an array.
ChildrenMd(node) ==
    LET children == Get(node, "children")
    IN  IF children.some /\ children.v.k = "arr" THEN RenderNodes(children.v.a)
        ELSE <<>>

plate_node_to_markdown(node) ==
    IF HasStr(node, "text") THEN RenderText(node)
    ELSE RenderElement(node, ChildrenMd(node))

\* is_plate_json
is_plate_json(c) ==
    LET trimmed == Trim(c)
    IN  trimmed # <<>> /\ Head(trimmed) = "[" /\ trimmed[Len(trimmed)] = "]"

---------------------------------------------------------------------------
(* plate_json_to_markdown and the choice of the converter *)

\* A loop body that pushes the line feed only after a rendering that does
\* not end with one.
PushNode_unless_newline(res, node_md) ==
    IF node_md = <<>> THEN res
    ELSE IF node_md[Len(node_md)] = "\n" THEN res \o node_md
    ELSE res \o node_md \o <<"\n">>

\* The body of the loop over the top-level nodes: a rendering that is not
\* empty is pushed, and a line feed after it.
PushNode(res, node_md) ==
    IF node_md # <<>> THEN res \o node_md \o <<"\n">> ELSE res

\* result after the first n iterations of the loop.
RECURSIVE RenderTopLevel(_, _)
RenderTopLevel(ns, n) ==
    IF n = 0 THEN <<>>
    ELSE PushNode(RenderTopLevel(ns, n - 1), plate_node_to_markdown(ns[n]))

\* An Err arm that gives the empty text.
ParseFallback_empty(c) == <<>>

\* The Err arm: the HTML stripper on the whole content.
ParseFallback(c) == strip_html_to_markdown(c)

plate_json_to_markdown(c) ==
    LET parsed == ParseDocument(c)
    IN  IF parsed.ok THEN Trim(RenderTopLevel(parsed.v.a, Len(parsed.v.a)))
        ELSE ParseFallback(c)

\* clean_content of create_note_file.
clean_content(c) ==
    IF is_plate_json(c) THEN plate_json_to_markdown(c) ELSE strip_html_to_markdown(c)

---------------------------------------------------------------------------
(* The commands on the temp directory: create_note_file, create_drag_icon *)
(* and cleanup_drag_file. The file system is the set of the existing      *)
(* files, each with its content; a command is one action, and its I/O may *)
(* fail.                                                                   *)

\* std::env::temp_dir()
TempDir == Chars("/tmp")

\* Path::join: a relative path is put after the directory, an absolute one
\* replaces it.
PathJoin(dir, rel) ==
    IF rel # <<>> /\ Head(rel) = "/" THEN rel ELSE dir \o <<"/">> \o rel

\* A workspace directory whose name is not the one cleanup looks for.
Workspace_other_name == PathJoin(TempDir, Chars("pawkit-tmp"))

\* temp_dir: std::env::temp_dir().join("pawkit-drag")
Workspace == PathJoin(TempDir, Chars("pawkit-drag"))

\* A path of the note that takes the title as given.
NotePath_unsanitized(t) == PathJoin(PathJoin(Chars("/tmp"), Chars("pawkit-drag")), t \o Chars(".md"))

\* format!("{}.md", sanitize_filename(&title)) joined to temp_dir.
NotePath(t) == PathJoin(Workspace, sanitize_filename(t) \o Chars(".md"))

\* A note body that takes the sanitized title.
NoteBody_sanitized_title(t, clean) ==
    Chars("# ") \o sanitize_filename(t) \o Chars("\n\n") \o clean

\* md_content: format!("# {}\n\n{}", title, clean_content)
NoteBody(t, clean) == Chars("# ") \o t \o Chars("\n\n") \o clean

\* format!("{}.webloc", sanitize_filename(&title)) joined to temp_dir.
WeblocPath(t) == PathJoin(Workspace, sanitize_filename(t) \o Chars(".webloc"))

\* url.replace('&', "&amp;").replace('<', "&lt;").replace('>', "&gt;")
WeblocEscapes == << <<"&", "&amp;">>, <<"<", "&lt;">>, <<">", "&gt;">> >>

\* webloc_content: the property list with the escaped url in its string.
WeblocBody(url) ==
    Chars("<?xml version=\"1.0\" encoding=\"UTF-8\"?>\n")
    \o Chars("<!DOCTYPE plist PUBLIC \"-//Apple//DTD PLIST 1.0//EN\" ")
    \o Chars("\"http://www.apple.com/DTDs/PropertyList-1.0.dtd\">\n")
    \o Chars("<plist version=\"1.0\">\n<dict>\n    <key>URL</key>\n    <string>")
    \o ApplySubstitutions(url, WeblocEscapes, Len(WeblocEscapes))
    \o Chars("</string>\n</dict>\n</plist>")

\* html_escape: the five replacements, in the order of the code.
HtmlEscapes ==
    << <<"&", "&amp;">>, <<"<", "&lt;">>, <<">", "&gt;">>, <<"\"", "&quot;">>,
       <<"'", "&#39;">> >>

html_escape(s) == ApplySubstitutions(s, HtmlEscapes, Len(HtmlEscapes))

\* format!("{}.html", sanitize_filename(&title)) joined to temp_dir.
RichCardPath(t) == PathJoin(Workspace, sanitize_filename(t) \o Chars(".html"))

\* option.map(|x| format!(before, f(x), after)).unwrap_or_default()
MapOrEmpty(option, before, escaped, after) ==
    IF option.some
    THEN Chars(before) \o (IF escaped THEN html_escape(option.v) ELSE option.v)
         \o Chars(after)
    ELSE <<>>

\* html_content: the page of the card. The style sheet, which takes nothing
\* from the arguments, is one token.
RichCardBody(url, title, description, image, card_content, notes) ==
    Chars("<!DOCTYPE html>\n<html>\n<head>\n    <meta charset=\"UTF-8\">\n")
    \o Chars("    <meta http-equiv=\"refresh\" content=\"0; url=") \o html_escape(url)
    \o Chars("\">\n    <title>") \o html_escape(title) \o Chars("</title>\n")
    \o <<"<style>">>
    \o Chars("</head>\n<body>\n    <div class=\"redirect-notice\">\n")
    \o Chars("        Redirecting to <a href=\"") \o html_escape(url) \o Chars("\">")
    \o html_escape(url) \o Chars("</a>...\n    </div>\n    <div class=\"card\">\n        ")
    \o MapOrEmpty(image, "<img src=\"", TRUE, "\" alt=\"Preview\" class=\"preview-image\">")
    \o Chars("\n        <div class=\"card-body\">\n            <h1><a href=\"")
    \o html_escape(url) \o Chars("\">") \o html_escape(title) \o Chars("</a></h1>\n")
    \o Chars("            ")
    \o MapOrEmpty(description, "<p class=\"description\">", TRUE, "</p>")
    \o Chars("\n            <p class=\"url\">") \o html_escape(url) \o Chars("</p>\n")
    \o Chars("            ")
    \o MapOrEmpty(card_content, "<div class=\"content\">", FALSE, "</div>")
    \o Chars("\n            ")
    \o MapOrEmpty(notes, "<div class=\"notes\"><h3>Notes</h3><p>", TRUE, "</p></div>")
    \o Chars("\n        </div>\n    </div>\n</body>\n</html>")

\* The content of the drag icon (png_data, 67 bytes), as one token.
PngData == <<"png_data">>

IconPath == PathJoin(Workspace, Chars("drag-icon.png"))

\* The record of a call: the command and its arguments (those it does not
\* take are empty).
NoCall ==
    [op |-> "none", title |-> <<>>, content |-> <<>>, path |-> <<>>, url |-> <<>>,
     description |-> None, image |-> None, notes |-> None]

Ok(v) == [ok |-> TRUE, val |-> v]
Err(e) == [ok |-> FALSE, val |-> Chars(e)]

\* The files with the file at path p holding body.
WriteFile(fs, p, body) ==
    [q \in DOMAIN fs \cup {p} |-> IF q = p THEN body ELSE fs[q]]

\* The files without the file at path p.
RemoveFile(fs, p) == [q \in DOMAIN fs \ {p} |-> fs[q]]

\* The segments of a path between its slashes.
RECURSIVE SegmentsFrom(_, _)
SegmentsFrom(p, i) ==
    IF i > Len(p) THEN <<>>
    ELSE LET slashes == {j \in i..Len(p) : p[j] = "/"}
         IN  IF slashes = {} THEN <<SubSeq(p, i, Len(p))>>
             ELSE <<SubSeq(p, i, SetMin(slashes) - 1)>> \o SegmentsFrom(p, SetMin(slashes) + 1)

\* The segments of a path with "." and empty segments dropped and every
\* ".." taking back the segment before it.
RECURSIVE Normalize(_, _)
Normalize(segs, acc) ==
    IF segs = <<>> THEN acc
    ELSE IF Head(segs) = <<>> \/ Head(segs) = <<".">> THEN Normalize(Tail(segs), acc)
    ELSE IF Head(segs) = <<".", ".">>
         THEN Normalize(Tail(segs), IF acc = <<>> THEN acc ELSE SubSeq(acc, 1, Len(acc) - 1))
    ELSE Normalize(Tail(segs), Append(acc, Head(segs)))

\* The file an absolute path names, as the operating system resolves it.
Resolve(p) ==
    LET segs == Normalize(SegmentsFrom(p, 1), <<>>)
    IN  Join([i \in 1..Len(segs) |-> <<"/">> \o segs[i]], <<>>)

\* Whether the path goes through the workspace directory.
ThroughWorkspace(p) == MatchAt(p, Workspace \o <<"/">>, 1)

\* create_note_file(title, content). dir_ok and write_ok are the outcomes
\* of create_dir_all and of fs::write; a write that fails leaves the file
\* as it was or, when truncated is true, empty.
create_note_file(t, c, dir_ok, write_ok, truncated) ==
    /\ call' = [NoCall EXCEPT !.op = "create_note_file", !.title = t, !.content = c]
    /\ IF ~dir_ok
       THEN /\ ret' = Err("create_dir_all failed")
            /\ UNCHANGED <<files, dirExists>>
       ELSE /\ dirExists' = TRUE
            /\ IF write_ok
               THEN /\ files' = WriteFile(files, NotePath(t), NoteBody(t, clean_content(c)))
                    /\ ret' = Ok(NotePath(t))
               ELSE /\ files' = IF truncated THEN WriteFile(files, NotePath(t), <<>>)
                                ELSE files
                    /\ ret' = Err("write failed")

\* What create_webloc_file and create_rich_card_file do with the file
\* system, as create_note_file does: create_dir_all, then fs::write of
\* body at p, then the path.
WriteArtifact(p, body, dir_ok, write_ok, truncated) ==
    IF ~dir_ok
    THEN /\ ret' = Err("create_dir_all failed")
         /\ UNCHANGED <<files, dirExists>>
    ELSE /\ dirExists' = TRUE
         /\ IF write_ok
            THEN /\ files' = WriteFile(files, p, body)
                 /\ ret' = Ok(p)
            ELSE /\ files' = IF truncated THEN WriteFile(files, p, <<>>) ELSE files
                 /\ ret' = Err("write failed")

\* create_webloc_file(url, title)
create_webloc_file(url, t, dir_ok, write_ok, truncated) ==
    /\ call' = [NoCall EXCEPT !.op = "create_webloc_file", !.title = t, !.url = url]
    /\ WriteArtifact(WeblocPath(t), WeblocBody(url), dir_ok, write_ok, truncated)

\* create_rich_card_file(url, title, description, image, content, notes)
create_rich_card_file(url, t, description, image, c, notes, dir_ok, write_ok, truncated) ==
    /\ call' = [NoCall EXCEPT !.op = "create_rich_card_file", !.title = t, !.url = url,
                              !.description = description, !.image = image,
                              !.content = c, !.notes = notes]
    /\ WriteArtifact(RichCardPath(t), RichCardBody(url, t, description, image, c, notes),
                     dir_ok, write_ok, truncated)

\* A create_drag_icon that writes the icon at every call.
create_drag_icon_always(dir_ok, write_ok, truncated) ==
    /\ call' = [NoCall EXCEPT !.op = "create_drag_icon"]
    /\ WriteArtifact(PathJoin(Workspace, Chars("drag-icon.png")), <<"png_data">>,
                     dir_ok, write_ok, truncated)

\* create_drag_icon(): the icon is written only when it does not exist.
create_drag_icon(dir_ok, write_ok, truncated) ==
    /\ call' = [NoCall EXCEPT !.op = "create_drag_icon"]
    /\ IF ~dir_ok
       THEN /\ ret' = Err("create_dir_all failed")
            /\ UNCHANGED <<files, dirExists>>
       ELSE /\ dirExists' = TRUE
            /\ IF IconPath \in DOMAIN files
               THEN /\ ret' = Ok(IconPath)
                    /\ UNCHANGED files
               ELSE IF write_ok
               THEN /\ files' = WriteFile(files, IconPath, PngData)
                    /\ ret' = Ok(IconPath)
               ELSE /\ files' = IF truncated THEN WriteFile(files, IconPath, <<>>)
                                ELSE files
                    /\ ret' = Err("write failed")

\* A cleanup that removes the file whatever the path holds.
cleanup_without_check(p) ==
    /\ call' = [NoCall EXCEPT !.op = "cleanup_drag_file", !.path = p]
    /\ UNCHANGED dirExists
    /\ IF Resolve(p) \in DOMAIN files /\ (ThroughWorkspace(p) => dirExists)
       THEN /\ files' = RemoveFile(files, Resolve(p))
            /\ ret' = Ok(<<>>)
       ELSE /\ ret' = Err("remove_file failed")
            /\ UNCHANGED files

\* A cleanup that drops the error of remove_file.
cleanup_ignoring_errors(p) ==
    /\ call' = [NoCall EXCEPT !.op = "cleanup_drag_file", !.path = p]
    /\ UNCHANGED dirExists
    /\ ret' = Ok(<<>>)
    /\ IF /\ Contains(p, Chars("pawkit-drag"))
          /\ Resolve(p) \in DOMAIN files
          /\ (ThroughWorkspace(p) => dirExists)
       THEN files' = RemoveFile(files, Resolve(p))
       ELSE UNCHANGED files

\* cleanup_drag_file(path): remove_file only when the path contains
\* "pawkit-drag"; a path through the workspace names nothing while the
\* workspace directory does not exist.
cleanup_drag_file(p) ==
    /\ call' = [NoCall EXCEPT !.op = "cleanup_drag_file", !.path = p]
    /\ UNCHANGED dirExists
    /\ IF Contains(p, Chars("pawkit-drag"))
       THEN IF Resolve(p) \in DOMAIN files /\ (ThroughWorkspace(p) => dirExists)
            THEN /\ files' = RemoveFile(files, Resolve(p))
                 /\ ret' = Ok(<<>>)
            ELSE /\ ret' = Err("remove_file failed")
                 /\ UNCHANGED files
       ELSE /\ ret' = Ok(<<>>)
            /\ UNCHANGED files

---------------------------------------------------------------------------
(* Specification of the stripper: an HTML text is drawn and stripped.      *)

\* Most pieces a drawn HTML text is put together from.
MaxPieces == 3

HtmlPieces ==
    {"<", ">", "&lt;", "&gt;", "&amp;", "lt;", "b", " ", "\n", "</p>", "<br>",
     "<strong>"}

HtmlExamples ==
    {Chars("a &lt;b&gt; c"),
     Chars("<p>Hello <strong>World</strong></p>"),
     Chars("<div>x<br/>y</div><i>z</i> &quot;q&quot;&nbsp;<a href=\"u\">l</a>")}

HtmlInputs == {Concat(ps) : ps \in SeqsUpTo(HtmlPieces, MaxPieces)} \cup HtmlExamples

InitStrip ==
    /\ phase = "input"
    /\ html \in HtmlInputs
    /\ stripped = <<>>
    /\ SanitizeIdle
    /\ RenderIdle
    /\ CommandsIdle
    /\ RaceIdle
    /\ ServerIdle
    /\ PortalIdle

Strip ==
    /\ phase = "input"
    /\ stripped' = strip_html_to_markdown(html)
    /\ phase' = "stripped"
    /\ UNCHANGED <<html, sanitizeVars, renderVars, commandVars, raceVars, serverVars, portalVars>>

NextStrip == Strip

SpecStrip == InitStrip /\ [][NextStrip]_vars

\* A tag-shaped span of s: a '<', one or more characters other than '>',
\* then a '>'.
HasTagShape(s) ==
    \E i \in 1..Len(s) : \E j \in (i + 2)..Len(s) :
        /\ s[i] = "<"
        /\ s[j] = ">"
        /\ \A k \in (i + 1)..(j - 1) : s[k] # ">"

\* C6: the output of strip has no tag-shaped substring, although the tags
\* are removed in one pass after the entity substitutions have brought in
\* new '<' and '>'.
StripLeavesNoTag == phase = "stripped" => ~HasTagShape(stripped)

\* A text without any '<' whose entities un-escape to a tag-shaped span has
\* been stripped.
StripLeavesNoTagWitness ==
    /\ phase = "stripped"
    /\ \A i \in 1..Len(html) : html[i] \notin {"<", ">"}
    /\ HasTagShape(ApplySubstitutions(html, EntitySubstitutions,
                                      Len(EntitySubstitutions)))

\* C7: escaped angle brackets are not taken for tags: when the text has
\* "&lt;", a word, "&gt;", the un-escaped "<word>" is in the output.
EscapedBracketsSurvive ==
    phase = "stripped" =>
        \A w \in {<<"b">>, <<"b", "b">>} :
            Contains(html, Chars("&lt;") \o w \o Chars("&gt;"))
                => Contains(stripped, <<"<">> \o w \o <<">">>)

---------------------------------------------------------------------------
(* Specification of the conversion of a note's content: a content is       *)
(* drawn, the detector chooses the converter, and the renderer goes        *)
(* through the top-level nodes one iteration at a time.                    *)

\* Most children of a drawn element.
MaxChildren == 2
\* Most top-level nodes of a drawn document of several nodes.
MaxTop == 2
\* Most pieces between the brackets of a drawn bracketed text.
MaxJsonPieces == 3

\* The JSON text of a text node: the field "text" and the marks set, in the
\* order of fields.
FieldJson(f) ==
    IF f = "text" THEN Chars("\"text\":\"x\"")
    ELSE <<"\"">> \o Chars(f) \o Chars("\":true")

TextNodeJson(fields) ==
    <<"{">> \o Join([i \in 1..Len(fields) |-> FieldJson(fields[i])], <<",">>) \o <<"}">>

\* Every order of "text" and of any of the marks, without repetition.
FieldOrders ==
    {f \in NonEmptySeqs({"text"} \cup {Marks[i] : i \in 1..Len(Marks)}, Len(Marks) + 1) :
        /\ \E i \in 1..Len(f) : f[i] = "text"
        /\ \A i, j \in 1..Len(f) : i # j => f[i] # f[j]}

\* Text nodes whose marks are not all true booleans, or given twice.
OddTextNodes ==
    {Chars("{\"text\":\"x\",\"bold\":false,\"italic\":true}"),
     Chars("{\"bold\":\"yes\",\"code\":1,\"text\":\"x\",\"highlight\":null}"),
     Chars("{\"bold\":true,\"text\":\"x\",\"bold\":false,\"italic\":false,\"italic\":true}"),
     Chars("{\"text\":\"\",\"strikethrough\":true}"),
     Chars("{\"text\":\"a\\nb\",\"type\":\"p\",\"children\":[{\"text\":\"c\"}]}"),
     Chars("{\"text\":1,\"bold\":true}")}

TextNodes == {TextNodeJson(f) : f \in FieldOrders} \cup OddTextNodes

\* The JSON text of an element: its type (none when t is empty) and the
\* JSON texts of its children.
ElementJson(t, cs) ==
    <<"{">>
    \o (IF t = "" THEN <<>> ELSE Chars("\"type\":\"") \o Chars(t) \o Chars("\","))
    \o Chars("\"children\":[") \o Join(cs, <<",">>) \o Chars("]}")

Leaves ==
    {Chars("{\"text\":\"Hi\"}"),
     Chars("{\"text\":\"world\",\"bold\":true}"),
     Chars("{\"text\":\" x \"}")}

\* Elements over the leaves; "custom" stands for an unknown type and ""
\* for a missing one.
Level1 ==
    {ElementJson(t, cs) :
        t \in {"p", "h1", "h3", "lic", "a", "blockquote", "custom", ""},
        cs \in SeqsUpTo(Leaves, MaxChildren)}

Level1Picked ==
    Leaves \cup {ElementJson(t, <<Chars("{\"text\":\"Hi\"}")>>) :
                    t \in {"p", "lic", "custom", ""}}

Level2 ==
    {ElementJson(t, cs) :
        t \in {"li", "blockquote", "custom", ""},
        cs \in NonEmptySeqs(Level1Picked, MaxChildren)}

Level2Picked ==
    {ElementJson(t, <<n>>) :
        t \in {"li", "custom"},
        n \in {ElementJson(u, <<Chars("{\"text\":\"Hi\"}")>>) : u \in {"lic", "custom"}}}

Level3 ==
    {ElementJson(t, cs) :
        t \in {"ul", "ol", "custom"}, cs \in NonEmptySeqs(Level2Picked, MaxChildren)}

\* Elements with attributes, nodes without children, and values that are
\* no objects.
OddNodes ==
    {Chars("{\"type\":\"hr\"}"),
     Chars("{\"type\":\"custom\"}"),
     Chars("{\"type\":\"custom\",\"children\":\"none\"}"),
     Chars("{\"type\":7,\"children\":[{\"text\":\"Hi\"}]}"),
     Chars("{\"type\":\"P\",\"children\":[{\"text\":\"Hi\"}]}"),
     Chars("{}"), Chars("null"), Chars("12"), Chars("\"Hi\""),
     Chars("[{\"text\":\"Hi\"}]"),
     Chars("{\"type\":\"a\",\"url\":\"u\",\"children\":[{\"text\":\"Hi\"}]}"),
     Chars("{\"type\":\"img\",\"url\":\"u\",\"alt\":\"pic\"}"),
     Chars("{\"type\":\"mention\",\"value\":\"v\"}"),
     Chars("{\"type\":\"action_item\",\"checked\":true,\"children\":[{\"text\":\" x \"}]}"),
     Chars("{\"type\":\"code_block\",\"lang\":\"rs\",\"children\":[{\"type\":\"code_line\",\"children\":[{\"text\":\"fn\"}]}]}"),
     Chars("{\"type\":\"callout\",\"children\":[{\"type\":\"p\",\"children\":[{\"text\":\"Hi\"}]},{\"text\":\"x\"}]}"),
     Chars("{\"type\":\"custom\",\"children\":[{\"type\":\"p\",\"children\":[{\"text\":\"Hi\"}]},7,{\"type\":\"other\",\"children\":[{\"text\":\"world\",\"bold\":true}]}]}")}

\* The nodes the documents of several top-level nodes are made of.
TopNodes ==
    Leaves \cup
    {ElementJson(t, <<Chars("{\"text\":\"Hi\"}")>>) : t \in {"p", "h1", "a", "custom"}}
    \cup {ElementJson("p", <<>>), Chars("{\"type\":\"hr\"}"), Chars("null")}

DocumentJson(ns) == <<"[">> \o Join(ns, <<",">>) \o <<"]">>

HiWorldDocument ==
    Chars("[{\"type\":\"h1\",\"children\":[{\"text\":\"Hi\"}]}, {\"type\":\"p\",\"children\":[{\"text\":\"world\",\"bold\":true}]}]")

Documents ==
    {DocumentJson(<<n>>) : n \in TextNodes \cup Level1 \cup Level2 \cup Level3 \cup OddNodes}
    \cup {DocumentJson(ns) : ns \in SeqsUpTo(TopNodes, MaxTop)}
    \cup {HiWorldDocument,
          Chars(" [ { \"text\" : \"Hi\" } ,\n { \"type\" : \"hr\" } ]\n")}

JsonPieces == {"[", "]", "{", "}", ",", "\"a\"", " ", "<b>"}

\* Texts between brackets: some are JSON arrays, most are not.
BracketedTexts ==
    {<<"[">> \o Concat(ps) \o <<"]">> : ps \in SeqsUpTo(JsonPieces, MaxJsonPieces)}
    \cup {Chars(" [x<br>y] \n"), Chars("[&lt;p&gt;]"), Chars("[{\"a\":true,\"b\":[null]}"),
          Chars("[{\"text\":\"Hi\"}"), Chars("[{\"text\":\"Hi\"}]]"),
          Chars("[{\"text\":\"<i>Hi</i>\",}]"), Chars("[{'text':'Hi'}]"),
          Chars("\f[1]"), Chars("[\"a\\qb\"]"), Chars("[01]"), Chars("[1.]"),
          Chars("[-]"), Chars("[nul]"), Chars("[\"a\nb\"]")}

ContentInputs == Documents \cup BracketedTexts \cup HtmlExamples

InitRender ==
    /\ phase = "input"
    /\ content \in ContentInputs
    /\ nodes = <<>>
    /\ idx = 0
    /\ md = <<>>
    /\ result = <<>>
    /\ markdown = <<>>
    /\ SanitizeIdle
    /\ StripIdle
    /\ CommandsIdle
    /\ RaceIdle
    /\ ServerIdle
    /\ PortalIdle

\* The detector answers true and the content parses: the loop starts.
ParsePlate ==
    /\ phase = "input"
    /\ is_plate_json(content)
    /\ ParseDocument(content).ok
    /\ nodes' = ParseDocument(content).v.a
    /\ phase' = "loop"
    /\ UNCHANGED <<content, idx, md, result, markdown, sanitizeVars, stripVars, commandVars, raceVars, serverVars, portalVars>>

\* One iteration of the loop of plate_json_to_markdown.
RenderNode ==
    /\ phase = "loop"
    /\ idx < Len(nodes)
    /\ idx' = idx + 1
    /\ md' = plate_node_to_markdown(nodes[idx + 1])
    /\ result' = PushNode(result, md')
    /\ UNCHANGED <<phase, content, nodes, markdown, sanitizeVars, stripVars, commandVars, raceVars, serverVars, portalVars>>

\* The loop is over: result.trim().to_string().
FinishPlate ==
    /\ phase = "loop"
    /\ idx = Len(nodes)
    /\ markdown' = Trim(result)
    /\ phase' = "rendered"
    /\ UNCHANGED <<content, nodes, idx, md, result, sanitizeVars, stripVars, commandVars, raceVars, serverVars, portalVars>>

\* The detector answers true and the content does not parse.
FallBack ==
    /\ phase = "input"
    /\ is_plate_json(content)
    /\ ~ParseDocument(content).ok
    /\ markdown' = ParseFallback(content)
    /\ phase' = "rendered"
    /\ UNCHANGED <<content, nodes, idx, md, result, sanitizeVars, stripVars, commandVars, raceVars, serverVars, portalVars>>

\* The detector answers false.
StripContent ==
    /\ phase = "input"
    /\ ~is_plate_json(content)
    /\ markdown' = strip_html_to_markdown(content)
    /\ phase' = "rendered"
    /\ UNCHANGED <<content, nodes, idx, md, result, sanitizeVars, stripVars, commandVars, raceVars, serverVars, portalVars>>

NextRender == ParsePlate \/ RenderNode \/ FinishPlate \/ FallBack \/ StripContent

SpecRender == InitRender /\ [][NextRender]_vars

\* The text of a text node and the set of the marks it carries.
TextOf(n) == Get(n, "text").v.s
MarkSet(n) == {m \in {Marks[i] : i \in 1..Len(Marks)} : GetBool(n, m)}

\* text wrapped in d when the mark is among ms.
WrapIf(mark, ms, d, text) == IF mark \in ms THEN Chars(d) \o text \o Chars(d) ELSE text

\* text wrapped for bold, then italic, then code, then strikethrough, then
\* highlight, for the marks among ms.
SequentialWrap(text, ms) ==
    LET b == WrapIf("bold", ms, "**", text)
        i == WrapIf("italic", ms, "*", b)
        c == IF "code" \in ms THEN <<Backquote>> \o i \o <<Backquote>> ELSE i
        s == WrapIf("strikethrough", ms, "~~", c)
    IN  WrapIf("highlight", ms, "==", s)

\* C1: the rendering of a text node is its text wrapped sequentially for
\* bold, italic, code, strikethrough and highlight, for the marks that are
\* set only; it depends on the set of the marks, not on the order of the
\* fields of the node.
TextMarksInFixedOrder ==
    (idx > 0 /\ HasStr(nodes[idx], "text")) =>
        md = SequentialWrap(TextOf(nodes[idx]), MarkSet(nodes[idx]))

\* A text node with the five marks, whose first field is "highlight" and
\* whose last is "bold", has been rendered.
TextMarksInFixedOrderWitness ==
    /\ idx > 0
    /\ HasStr(nodes[idx], "text")
    /\ Cardinality(MarkSet(nodes[idx])) = Len(Marks)
    /\ nodes[idx].a[1].key = Chars("highlight")
    /\ nodes[idx].a[Len(nodes[idx].a)].key = Chars("bold")
    /\ md = Chars("==~~") \o <<Backquote>> \o Chars("***x***") \o <<Backquote>>
            \o Chars("~~==")

\* The delimiters of the marks among ms, in the order of the marks given.
DelimitersOf(ms, order) ==
    Join([k \in 1..Len(order) |->
            IF Marks[order[k]] \in ms THEN Delimiter[order[k]] ELSE <<>>], <<>>)

\* text within the delimiters of the marks among ms, nested in the order
\* given from the outermost to the innermost.
NestedWrap(text, ms, outerToInner) ==
    DelimitersOf(ms, outerToInner) \o text
    \o DelimitersOf(ms, [k \in 1..Len(outerToInner) |->
                            outerToInner[Len(outerToInner) + 1 - k]])

\* C2 as stated: with several marks, the bold delimiters are the outermost
\* and the highlight delimiters the innermost.
BoldOutermostHighlightInnermost ==
    (idx > 0 /\ HasStr(nodes[idx], "text") /\ Cardinality(MarkSet(nodes[idx])) >= 2) =>
        md = NestedWrap(TextOf(nodes[idx]), MarkSet(nodes[idx]), <<1, 2, 3, 4, 5>>)

\* C2 as amended: with several marks, the highlight delimiters are the
\* outermost and the bold delimiters the innermost (outer to inner:
\* highlight, strikethrough, code, italic, bold).
HighlightOutermostBoldInnermost ==
    (idx > 0 /\ HasStr(nodes[idx], "text") /\ Cardinality(MarkSet(nodes[idx])) >= 2) =>
        md = NestedWrap(TextOf(nodes[idx]), MarkSet(nodes[idx]), <<5, 4, 3, 2, 1>>)

\* A text node with bold and highlight has been rendered: the highlight
\* delimiters are around the bold ones.
HighlightOutermostWitness ==
    /\ idx > 0
    /\ HasStr(nodes[idx], "text")
    /\ MarkSet(nodes[idx]) = {"bold", "highlight"}
    /\ md = Chars("==**x**==")

\* The tags the match of plate_node_to_markdown names.
KnownTypes ==
    {"p", "h1", "h2", "h3", "h4", "h5", "h6", "blockquote", "ul", "ol", "li", "lic",
     "action_item", "code_block", "code_line", "link", "a", "hr", "img", "image",
     "mention", "callout"}

\* An element (a node without a text) whose type is missing or not a known tag.
IsUnknownElement(n) ==
    /\ ~HasStr(n, "text")
    /\ \A t \in KnownTypes : GetStr(n, "type", "") # Chars(t)

\* The children of a node: the elements of its "children" when an array.
ChildrenOf(n) ==
    IF Get(n, "children").some /\ Get(n, "children").v.k = "arr"
    THEN Get(n, "children").v.a
    ELSE <<>>

\* A node and the nodes below it.
RECURSIVE SubNodes(_)
RECURSIVE SubNodesOfAll(_)
SubNodes(n) == <<n>> \o SubNodesOfAll(ChildrenOf(n))
SubNodesOfAll(ns) ==
    IF ns = <<>> THEN <<>> ELSE SubNodes(Head(ns)) \o SubNodesOfAll(Tail(ns))

UnknownWithThreeChildren ==
    Chars("[{\"type\":\"custom\",\"children\":[{\"type\":\"p\",\"children\":[{\"text\":\"Hi\"}]},7,{\"type\":\"other\",\"children\":[{\"text\":\"world\",\"bold\":true}]}]}]")

\* C3: the rendering of an element of unknown or missing type is the
\* concatenation of the renderings of its children, in order, with nothing
\* between, before or after them; and every node is rendered.
UnknownPassThrough ==
    idx > 0 =>
        /\ IsUnknownElement(nodes[idx]) => md = RenderNodes(ChildrenOf(nodes[idx]))
        /\ \A i \in 1..Len(SubNodes(nodes[idx])) :
              LET n == SubNodes(nodes[idx])[i]
              IN  IsUnknownElement(n) =>
                    plate_node_to_markdown(n) = RenderNodes(ChildrenOf(n))
        /\ content = UnknownWithThreeChildren => md = Chars("Hi\n**world**")

\* An element without a type and with two children has been rendered.
UnknownPassThroughWitness ==
    /\ idx > 0
    /\ nodes[idx].k = "obj"
    /\ ~Get(nodes[idx], "type").some
    /\ IsUnknownElement(nodes[idx])
    /\ Len(ChildrenOf(nodes[idx])) = 2
    /\ md = Chars("Hi**world**")

\* Whether s ends with the line feed.
EndsWithNewline(s) == s # <<>> /\ s[Len(s)] = "\n"

FallbackIsStrip ==
    (/\ phase = "rendered"
     /\ Trim(content) # <<>>
     /\ Head(Trim(content)) = "["
     /\ Trim(content)[Len(Trim(content))] = "]"
     /\ ~ParseDocument(content).ok) =>
        markdown = strip_html_to_markdown(content)

\* A bracketed text that is no JSON array and holds a tag has been
\* converted to a text that is not empty.
FallbackIsStripWitness ==
    /\ phase = "rendered"
    /\ is_plate_json(content)
    /\ ~ParseDocument(content).ok
    /\ Contains(content, Chars("<br>"))
    /\ markdown = Chars("[x\ny]")

---------------------------------------------------------------------------
(* Specification of the sanitizer: an input is drawn, sanitized, and the   *)
(* result sanitized again.                                                 *)

\* Longest free-form tail of a drawn file name.
MaxTail == 2

NameAlphabet == ForbiddenChars \cup {"a", " ", "\n"}

\* Lengths of the run of 'a' put before the tail: none, or enough for the
\* tail to straddle the 100-character limit.
PadLens == {0} \cup ((NameLimit - MaxTail - 1)..NameLimit)

\* A drawn file name: an optional leading blank, a run of 'a', a free tail.
NameInputs ==
    {h \o Repeat("a", n) \o t :
        h \in {<<>>, <<" ">>}, n \in PadLens, t \in SeqsUpTo(NameAlphabet, MaxTail)}

InitSanitize ==
    /\ phase = "input"
    /\ name \in NameInputs
    /\ sanitized = <<>>
    /\ resanitized = <<>>
    /\ StripIdle
    /\ RenderIdle
    /\ CommandsIdle
    /\ RaceIdle
    /\ ServerIdle
    /\ PortalIdle

Sanitize ==
    /\ phase = "input"
    /\ sanitized' = sanitize_filename(name)
    /\ phase' = "sanitized"
    /\ UNCHANGED <<name, resanitized, stripVars, renderVars, commandVars, raceVars, serverVars, portalVars>>

SanitizeAgain ==
    /\ phase = "sanitized"
    /\ resanitized' = sanitize_filename(sanitized)
    /\ phase' = "resanitized"
    /\ UNCHANGED <<name, sanitized, stripVars, renderVars, commandVars, raceVars, serverVars, portalVars>>

NextSanitize == Sanitize \/ SanitizeAgain

SpecSanitize == InitSanitize /\ [][NextSanitize]_vars

\* C4: sanitize is idempotent: sanitizing the result of sanitize_filename
\* gives that result again, for every input (also inputs longer than 100
\* characters and inputs whose 100-character prefix ends in whitespace).
SanitizeIdempotent == phase = "resanitized" => resanitized = sanitized

\* An input longer than the limit whose 100-character prefix ends in
\* whitespace has been sanitized twice.
SanitizeIdempotentWitness ==
    /\ phase = "resanitized"
    /\ Len(name) > NameLimit
    /\ IsWhitespace(name[NameLimit])
    /\ Len(sanitized) < NameLimit

\* C5: the output of sanitize has none of the forbidden characters, at most
\* 100 characters, and no leading or trailing whitespace.
SanitizeOutputSafe ==
    phase # "input" =>
        /\ \A i \in 1..Len(sanitized) : sanitized[i] \notin ForbiddenChars
        /\ Len(sanitized) <= NameLimit
        /\ sanitized # <<>> =>
              /\ ~IsWhitespace(sanitized[1])
              /\ ~IsWhitespace(sanitized[Len(sanitized)])

\* An input that starts with whitespace, is longer than the limit and has a
\* forbidden character within the limit has been sanitized.
SanitizeOutputSafeWitness ==
    /\ phase = "sanitized"
    /\ Len(name) > NameLimit
    /\ IsWhitespace(name[1])
    /\ \E i \in 1..NameLimit : name[i] \in ForbiddenChars
    /\ \E i \in 1..Len(sanitized) : sanitized[i] = "_"

---------------------------------------------------------------------------
(* Specification of the commands: the front end calls them one after the   *)
(* other, with any of the drawn arguments.                                 *)

\* Most commands of a behaviour.
MaxCalls == 2

ExampleTitle == Chars("My Title: v2")
ExampleHtml == Chars("<p>Hello <strong>World</strong></p>")

NoteTitles == {ExampleTitle, Chars("a/b"), Chars("a:b"), Chars("..\\x/y")}

\* The titles of the bookmarks and of the cards.
CardTitles == {Chars("a/b"), Chars("..")}

\* The outcomes of create_dir_all and of fs::write: dir_ok, write_ok and
\* whether a failed write left the file created and empty.
IoOutcomes ==
    {<<FALSE, FALSE, FALSE>>, <<TRUE, TRUE, FALSE>>, <<TRUE, FALSE, FALSE>>,
     <<TRUE, FALSE, TRUE>>}

NoteContents == {ExampleHtml, HiWorldDocument, Chars("[x<br>y]")}

Urls == {Chars("https://a.b/?x=1&y=<2>"), Chars("u")}

\* The optional arguments of create_rich_card_file: description, image,
\* content and notes.
CardOptions ==
    {<<None, None, None, None>>,
     <<Some(Chars("d & \"e\"")), Some(Chars("i.png")), Some(Chars("<p>c</p>")),
       Some(Chars("it's"))>>}

\* Files that exist outside the workspace.
OutsideFiles ==
    {Chars("/etc/passwd"), Chars("/home/u/pawkit-drag-notes/keep.md"), Chars("/tmp/keep.md")}

CleanupPaths ==
    {NotePath(t) : t \in NoteTitles} \cup {IconPath} \cup OutsideFiles
    \cup {Workspace \o Chars("/../keep.md"), PathJoin(Workspace, Chars("none.md")),
          Chars("/tmp/none.md")}

Init ==
    /\ phase = "commands"
    /\ files = [p \in OutsideFiles |-> Chars("kept")]
    /\ dirExists = FALSE
    /\ call = NoCall
    /\ ret = Ok(<<>>)
    /\ calls = 0
    /\ SanitizeIdle
    /\ StripIdle
    /\ RenderIdle
    /\ RaceIdle
    /\ ServerIdle
    /\ PortalIdle

Called ==
    /\ calls < MaxCalls
    /\ calls' = calls + 1
    /\ UNCHANGED <<phase, sanitizeVars, stripVars, renderVars, raceVars, serverVars, portalVars>>

CreateNoteFile ==
    /\ Called
    /\ \E t \in NoteTitles, c \in NoteContents, io \in IoOutcomes :
          create_note_file(t, c, io[1], io[2], io[3])

CreateWeblocFile ==
    /\ Called
    /\ \E url \in Urls, t \in CardTitles, io \in IoOutcomes :
          create_webloc_file(url, t, io[1], io[2], io[3])

CreateRichCardFile ==
    /\ Called
    /\ \E t \in CardTitles, o \in CardOptions, io \in IoOutcomes :
          create_rich_card_file(CHOOSE url \in Urls : Len(url) > 1, t,
                                o[1], o[2], o[3], o[4], io[1], io[2], io[3])

CreateDragIcon ==
    /\ Called
    /\ \E io \in IoOutcomes : create_drag_icon(io[1], io[2], io[3])

CleanupDragFile ==
    /\ Called
    /\ \E p \in CleanupPaths \cup DOMAIN files : cleanup_drag_file(p)

Next ==
    \/ CreateWeblocFile
    \/ CreateRichCardFile
    \/ CreateNoteFile
    \/ CreateDragIcon
    \/ CleanupDragFile

Spec == Init /\ [][Next]_vars

\* C9: create_note_file(title, content) writes the file
\* sanitize(title) + ".md" of the workspace, with the body "# ", the title
\* as given, two line feeds and the converted content: the renderer's
\* output when the detector takes the content for structured, the
\* stripper's otherwise. The example gives the file "My Title_ v2.md" with
\* the body "# My Title: v2", an empty line, "Hello **World**".
NoteFileWritten ==
    (call.op = "create_note_file" /\ ret.ok) =>
        /\ ret.val = Workspace \o <<"/">> \o sanitize_filename(call.title) \o Chars(".md")
        /\ ret.val \in DOMAIN files
        /\ files[ret.val] =
              Chars("# ") \o call.title \o <<"\n", "\n">>
              \o (IF is_plate_json(call.content)
                  THEN plate_json_to_markdown(call.content)
                  ELSE strip_html_to_markdown(call.content))
        /\ (call.title = ExampleTitle /\ call.content = ExampleHtml) =>
              /\ ret.val = Chars("/tmp/pawkit-drag/My Title_ v2.md")
              /\ files[ret.val] = Chars("# My Title: v2\n\nHello **World**")

\* The example call has returned its path.
NoteFileWrittenWitness ==
    /\ call.op = "create_note_file"
    /\ ret.ok
    /\ call.title = ExampleTitle
    /\ call.content = ExampleHtml
    /\ files[Chars("/tmp/pawkit-drag/My Title_ v2.md")]
          = Chars("# My Title: v2\n\nHello **World**")

\* Whether the text of a path holds the marker of the workspace.
HasMarker(p) == Contains(p, Chars("pawkit-drag"))

\* A step that is a call of cleanup_drag_file.
CleanupStep == calls' = calls + 1 /\ call'.op = "cleanup_drag_file"

\* C11: cleanup_drag_file on a path whose text does not hold the marker
\* returns success and leaves the file system as it was, whether or not
\* the path names a file.
CleanupWithoutMarkerIsNoOp ==
    [][(CleanupStep /\ ~HasMarker(call'.path)) =>
            /\ ret' = Ok(<<>>)
            /\ files' = files
            /\ dirExists' = dirExists]_vars

\* cleanup_drag_file("/etc/passwd") has returned success and the file is
\* there.
CleanupWithoutMarkerIsNoOpWitness ==
    /\ call.op = "cleanup_drag_file"
    /\ call.path = Chars("/etc/passwd")
    /\ ret.ok
    /\ Chars("/etc/passwd") \in DOMAIN files
    /\ files[Chars("/etc/passwd")] = Chars("kept")

\* C12: after any calls of the create commands and of cleanup_drag_file,
\* with any paths, no file outside the workspace directory has been
\* deleted.
OutsideFilesNeverDeleted ==
    \A p \in OutsideFiles : p \in DOMAIN files /\ files[p] = Chars("kept")

\* A step that is a call of create_drag_icon.
IconStep == calls' = calls + 1 /\ call'.op = "create_drag_icon"

\* C13: create_drag_icon writes the image only when the icon file does not
\* exist; when it exists the call writes nothing and leaves its content as
\* it was; and every call that returns a path returns the same one, that
\* of the icon, which then exists.
DragIconWrittenOnce ==
    [][IconStep =>
          /\ IconPath \in DOMAIN files => files' = files
          /\ files' # files =>
                /\ IconPath \notin DOMAIN files
                /\ files' \in {WriteFile(files, IconPath, PngData),
                               WriteFile(files, IconPath, <<>>)}
          /\ ret'.ok =>
                /\ ret'.val = Chars("/tmp/pawkit-drag/drag-icon.png")
                /\ ret'.val \in DOMAIN files'
          /\ (ret'.ok /\ IconPath \notin DOMAIN files) => files'[IconPath] = PngData]_vars

\* A second call of create_drag_icon has returned the path of the icon
\* that the first one wrote.
DragIconWrittenOnceWitness ==
    /\ calls = 2
    /\ call.op = "create_drag_icon"
    /\ ret = Ok(IconPath)
    /\ files[IconPath] = PngData
    /\ DOMAIN files = OutsideFiles \cup {IconPath}

---------------------------------------------------------------------------
(* Specification of two create commands running at the same time. The     *)
(* commands are async and run on the threads of the runtime; each goes     *)
(* through create_dir_all and std::fs::write, which opens the file         *)
(* (creating it, or cutting it to nothing) and then writes the content     *)
(* from the start of the file.                                             *)

Tasks == {1, 2}

RaceOps == {"create_note_file", "create_webloc_file"}

\* "a/b" and "a:b" sanitize to the same name.
RaceTitles == {Chars("a/b"), Chars("a:b"), Chars("c")}

\* The content of a note, or the url of a bookmark.
RaceContents == {Chars("<p>Hello</p>"), Chars("Hi")}

\* filepath of the command of a task.
ArtifactPath(task) ==
    IF task.op = "create_note_file" THEN NotePath(task.title) ELSE WeblocPath(task.title)

\* md_content or webloc_content of the command of a task.
ArtifactBody(task) ==
    IF task.op = "create_note_file"
    THEN NoteBody(task.title, clean_content(task.content))
    ELSE WeblocBody(task.content)

\* A file after a write of body at its start: what was beyond stays.
Overwrite(old, body) == body \o SubSeq(old, Len(body) + 1, Len(old))

InitRace ==
    /\ phase = "race"
    /\ tasks \in [Tasks -> [op : RaceOps, title : RaceTitles, content : RaceContents,
                            pc : {"create_dir_all"}, ret : {Ok(<<>>)}]]
    /\ files = <<>>
    /\ dirExists = FALSE
    /\ call = <<>>
    /\ ret = <<>>
    /\ calls = 0
    /\ SanitizeIdle
    /\ StripIdle
    /\ RenderIdle
    /\ ServerIdle
    /\ PortalIdle

RaceFrame == UNCHANGED <<phase, call, ret, calls, sanitizeVars, stripVars, renderVars, serverVars, portalVars>>

\* The task has failed at a step: map_err(|e| e.to_string())?
Failed(p, e) == tasks' = [tasks EXCEPT ![p].pc = "done", ![p].ret = Err(e)]

\* std::fs::create_dir_all(&temp_dir)
CreateDirAll(p) ==
    /\ tasks[p].pc = "create_dir_all"
    /\ \/ /\ dirExists' = TRUE
          /\ tasks' = [tasks EXCEPT ![p].pc = "open"]
       \/ /\ Failed(p, "create_dir_all failed")
          /\ UNCHANGED dirExists
    /\ UNCHANGED files
    /\ RaceFrame

\* std::fs::write, first half: File::create(path)
OpenFile(p) ==
    /\ tasks[p].pc = "open"
    /\ \/ /\ files' = WriteFile(files, ArtifactPath(tasks[p]), <<>>)
          /\ tasks' = [tasks EXCEPT ![p].pc = "write"]
       \/ /\ Failed(p, "write failed")
          /\ UNCHANGED files
    /\ UNCHANGED dirExists
    /\ RaceFrame

\* std::fs::write, second half: write_all(contents), then Ok(filepath)
WriteAll(p) ==
    /\ tasks[p].pc = "write"
    /\ \/ /\ files' = WriteFile(files, ArtifactPath(tasks[p]),
                                Overwrite(files[ArtifactPath(tasks[p])],
                                          ArtifactBody(tasks[p])))
          /\ tasks' = [tasks EXCEPT ![p].pc = "done",
                                    ![p].ret = Ok(ArtifactPath(tasks[p]))]
       \/ /\ Failed(p, "write failed")
          /\ UNCHANGED files
    /\ UNCHANGED dirExists
    /\ RaceFrame

NextRace == \E p \in Tasks : CreateDirAll(p) \/ OpenFile(p) \/ WriteAll(p)

SpecRace == InitRace /\ [][NextRace]_vars

\* C14: when two create commands of the same format whose titles sanitize
\* to the same filename have both returned a path, the two paths are the
\* same and the file holds the whole content of one of the two requests.
RaceLeavesOneWholeContent ==
    \A p, q \in Tasks :
        (/\ p # q
         /\ tasks[p].op = tasks[q].op
         /\ sanitize_filename(tasks[p].title) = sanitize_filename(tasks[q].title)
         /\ tasks[p].pc = "done" /\ tasks[p].ret.ok
         /\ tasks[q].pc = "done" /\ tasks[q].ret.ok) =>
            /\ tasks[p].ret.val = tasks[q].ret.val
            /\ files[tasks[p].ret.val] \in {ArtifactBody(tasks[p]), ArtifactBody(tasks[q])}

---------------------------------------------------------------------------
(* Further properties of the commands (specification Spec).                *)

CreateOps ==
    {"create_webloc_file", "create_rich_card_file", "create_note_file", "create_drag_icon"}

\* The content the create command of a call is to write.
IntendedBody(c) ==
    CASE c.op = "create_webloc_file" -> WeblocBody(c.url)
      [] c.op = "create_rich_card_file" ->
            RichCardBody(c.url, c.title, c.description, c.image, c.content, c.notes)
      [] c.op = "create_note_file" -> NoteBody(c.title, clean_content(c.content))
      [] c.op = "create_drag_icon" -> PngData

\* C15: a create command either returns a path whose file exists in the
\* workspace with its whole intended content, or returns an error; a
\* failure of the directory creation or of the write is never returned as
\* a path.
CreateReturnsWholeFileOrError ==
    call.op \in CreateOps =>
        IF ret.ok
        THEN /\ ret.val \in DOMAIN files
             /\ MatchAt(ret.val, Workspace \o <<"/">>, 1)
             /\ files[ret.val] = IntendedBody(call)
        ELSE ret.val \in {Chars("create_dir_all failed"), Chars("write failed")}

\* Whether p is the path of a file right in the workspace directory: the
\* directory, a slash and one name, which holds no separator and is
\* neither "." nor "..".
DirectChild(p) ==
    /\ MatchAt(p, Workspace \o <<"/">>, 1)
    /\ LET file == SubSeq(p, Len(Workspace) + 2, Len(p))
       IN  /\ file # <<>>
           /\ \A i \in 1..Len(file) : file[i] \notin {"/", "\\"}
           /\ file \notin {<<".">>, <<".", ".">>}
    /\ Resolve(p) = p

\* C16: for every title, the path a create command returns is that of a
\* file right in the workspace directory, and so is every file the
\* commands have written.
ArtifactsAreDirectChildren ==
    /\ (call.op \in CreateOps /\ ret.ok) => DirectChild(ret.val)
    /\ \A p \in DOMAIN files \ OutsideFiles : DirectChild(p)

\* A note whose title holds "..", a backslash and a slash has been
\* written right in the workspace.
ArtifactsAreDirectChildrenWitness ==
    /\ call.op = "create_note_file"
    /\ call.title = Chars("..\\x/y")
    /\ ret.ok
    /\ ret.val = Chars("/tmp/pawkit-drag/.._x_y.md")
    /\ ret.val \in DOMAIN files

\* C17: every path a create command returns holds the marker, so a
\* cleanup_drag_file of that path right after returns success, after which
\* the file does not exist and every other file is as it was.
CreateThenCleanup ==
    [][(/\ call.op \in CreateOps
        /\ ret.ok
        /\ CleanupStep
        /\ call'.path = ret.val) =>
            /\ HasMarker(ret.val)
            /\ ret.val \in DOMAIN files
            /\ ret' = Ok(<<>>)
            /\ ret.val \notin DOMAIN files'
            /\ files' = RemoveFile(files, ret.val)]_vars

\* The note of the example was created and then cleaned up; the files
\* outside the workspace are there.
CreateThenCleanupWitness ==
    /\ calls = 2
    /\ call.op = "cleanup_drag_file"
    /\ call.path = NotePath(ExampleTitle)
    /\ ret.ok
    /\ DOMAIN files = OutsideFiles

\* C18: cleanup_drag_file on a path that holds the marker and names no
\* file returns the error of remove_file and leaves the files as they
\* were; a cleanup that returns success without deleting anything is one
\* on a path without the marker.
CleanupOfMissingFileFails ==
    [][CleanupStep =>
          /\ (HasMarker(call'.path) /\ Resolve(call'.path) \notin DOMAIN files) =>
                /\ ~ret'.ok
                /\ ret'.val = Chars("remove_file failed")
                /\ files' = files
          /\ (ret'.ok /\ files' = files) => ~HasMarker(call'.path)]_vars

\* A file with the marker in its path was cleaned up, and a second cleanup
\* of it has returned the error.
CleanupOfMissingFileFailsWitness ==
    /\ calls = 2
    /\ call.op = "cleanup_drag_file"
    /\ call.path = Chars("/home/u/pawkit-drag-notes/keep.md")
    /\ call.path \notin DOMAIN files
    /\ ~ret.ok
    /\ ret.val = Chars("remove_file failed")

---------------------------------------------------------------------------
(* Further properties of the renderer (specification SpecRender).          *)

\* Whether n is an element of the given type.
HasType(n, t) == ~HasStr(n, "text") /\ GetStr(n, "type", "") = Chars(t)

\* Whether n is a list of the usual shape: a "ul" or "ol" whose children
\* are "li" elements, each with one "lic" element over plain text nodes.
IsUsualList(n) ==
    /\ HasType(n, "ul") \/ HasType(n, "ol")
    /\ ChildrenOf(n) # <<>>
    /\ \A i \in 1..Len(ChildrenOf(n)) :
          LET li == ChildrenOf(n)[i]
          IN  /\ HasType(li, "li")
              /\ Len(ChildrenOf(li)) = 1
              /\ HasType(ChildrenOf(li)[1], "lic")
              /\ ChildrenOf(ChildrenOf(li)[1]) # <<>>
              /\ \A j \in 1..Len(ChildrenOf(ChildrenOf(li)[1])) :
                    /\ HasStr(ChildrenOf(ChildrenOf(li)[1])[j], "text")
                    /\ ApplyMarks(ChildrenOf(ChildrenOf(li)[1])[j], <<>>, Len(Marks)) = <<>>

\* The text of an item of a usual list.
ItemText(li) ==
    LET leaves == ChildrenOf(ChildrenOf(li)[1])
    IN  Trim(Join([j \in 1..Len(leaves) |-> GetStr(leaves[j], "text", "")], <<>>))

\* C19: a list of the usual shape renders as one line for each item: the
\* marker "- " once, the text of the item and a line feed.
ListItemsHaveOneMarker ==
    (idx > 0 /\ IsUsualList(nodes[idx])) =>
        md = Join([i \in 1..Len(ChildrenOf(nodes[idx])) |->
                      Chars("- ") \o ItemText(ChildrenOf(nodes[idx])[i]) \o <<"\n">>], <<>>)

---------------------------------------------------------------------------
(* Specification of wait_for_server (server.rs): the loop that polls the   *)
(* server until it answers, at most max_attempts times. Each poll gets an  *)
(* answer, and each delay ends.                                            *)

max_attempts == 30

\* What a poll can get: a response of one of the classes of status, or an
\* error of the request.
Responses ==
    {"informational", "success", "redirection", "client_error", "server_error", "error"}

\* A poll that takes only a success for ready.
IsReady_success_only(r) == r = "success"

\* Ok(response) if response.status().is_success() || response.status().is_redirection()
IsReady(r) == r = "success" \/ r = "redirection"

InitWait ==
    /\ phase = "wait"
    /\ attempt = 1
    /\ response = "none"
    /\ polls = 0
    /\ sleeps = 0
    /\ wpc = "poll"
    /\ SanitizeIdle
    /\ StripIdle
    /\ RenderIdle
    /\ CommandsIdle
    /\ RaceIdle
    /\ PortalIdle

WaitFrame == UNCHANGED <<phase, sanitizeVars, stripVars, renderVars, commandVars, raceVars, portalVars>>

\* client.get(&url).send().await and the match on its result: a ready
\* response returns, anything else goes on to the delay.
Poll ==
    /\ wpc = "poll"
    /\ \E r \in Responses :
          /\ response' = r
          /\ wpc' = IF IsReady(r) THEN "returned" ELSE "sleep"
    /\ polls' = polls + 1
    /\ UNCHANGED <<attempt, sleeps>>
    /\ WaitFrame

\* tokio::time::sleep(delay).await, then the next attempt of the loop or,
\* after the last one, the end of the function.
Sleep ==
    /\ wpc = "sleep"
    /\ sleeps' = sleeps + 1
    /\ IF attempt < max_attempts
       THEN attempt' = attempt + 1 /\ wpc' = "poll"
       ELSE attempt' = attempt /\ wpc' = "returned"
    /\ UNCHANGED <<response, polls>>
    /\ WaitFrame

NextWait == Poll \/ Sleep

SpecWait == InitWait /\ [][NextWait]_vars /\ WF_vars(NextWait)

\* The last poll got a success or a redirection.
GotReady == response \in {"success", "redirection"}

\* C20: wait_for_server returns in the end; it returns at the first poll
\* that gets a success or a redirection, and otherwise after 30 polls, each
\* followed by a delay; and it sends no poll after a ready response.
WaitForServerTerminates ==
    /\ <>(wpc = "returned")
    /\ [](wpc = "returned" =>
            \/ GotReady /\ polls \in 1..30 /\ sleeps = polls - 1
            \/ ~GotReady /\ polls = 30 /\ sleeps = 30)
    /\ [](wpc # "returned" => ~GotReady /\ polls < 30 + (IF wpc = "sleep" THEN 1 ELSE 0))
    /\ [][(polls' = polls + 1 /\ response' \in {"success", "redirection"}) =>
              wpc' = "returned"]_vars
    /\ [][GotReady => polls' = polls]_vars

\* The server never got ready: wait_for_server has returned after 30 polls
\* and 30 delays.
WaitForServerTerminatesWitness ==
    /\ wpc = "returned"
    /\ ~GotReady
    /\ response = "error"
    /\ polls = 30
    /\ sleeps = 30

---------------------------------------------------------------------------
(* Specification of the portal window (lib.rs): the task of setup builds   *)
(* it hidden once the server is ready, the global shortcut toggles it and  *)
(* a close request for it is turned into a hide. The shortcut is           *)
(* registered before the task has built the window, so a toggle may come   *)
(* first.                                                                  *)

\* Most close requests and toggles of a behaviour.
MaxEvents == 12

\* create_portal_window: builder.build()? gives a window, not visible, or
\* an error; it gives an error when a window with the label exists.
create_portal_window(build_ok) ==
    IF build_ok /\ portal = "none"
    THEN [ok |-> TRUE, portal |-> "hidden", windows |-> windows + 1]
    ELSE [ok |-> FALSE, portal |-> portal, windows |-> windows]

\* A handler of the close request that lets the window be destroyed.
CloseRequested_destroys == portal' = "none" /\ windows' = windows

\* The handler of CloseRequested for the portal: api.prevent_close() and
\* window.hide().
CloseRequested == portal' = "hidden" /\ windows' = windows

\* toggle_portal: hide the visible window, show the hidden one, and with no
\* window build one and show it, or return when the build fails.
toggle_portal(build_ok) ==
    IF portal # "none"
    THEN /\ portal' = IF portal = "visible" THEN "hidden" ELSE "visible"
         /\ windows' = windows
    ELSE LET built == create_portal_window(build_ok)
         IN  /\ portal' = IF built.ok THEN "visible" ELSE built.portal
             /\ windows' = built.windows

InitPortal ==
    /\ phase = "portal"
    /\ portal = "none"
    /\ windows = 0
    /\ startup = "pending"
    /\ event = "none"
    /\ events = 0
    /\ SanitizeIdle
    /\ StripIdle
    /\ RenderIdle
    /\ CommandsIdle
    /\ RaceIdle
    /\ ServerIdle

PortalFrame ==
    UNCHANGED <<phase, sanitizeVars, stripVars, renderVars, commandVars, raceVars, serverVars>>

\* The task spawned by setup: create_portal_window, its error logged.
StartupCreate ==
    /\ startup = "pending"
    /\ \E build_ok \in BOOLEAN :
          /\ portal' = create_portal_window(build_ok).portal
          /\ windows' = create_portal_window(build_ok).windows
    /\ startup' = "done"
    /\ event' = "startup"
    /\ UNCHANGED events
    /\ PortalFrame

\* A close request for the portal window, which exists.
CloseRequest ==
    /\ events < MaxEvents
    /\ portal # "none"
    /\ CloseRequested
    /\ event' = "close"
    /\ events' = events + 1
    /\ UNCHANGED startup
    /\ PortalFrame

\* The global shortcut is pressed.
TogglePortal ==
    /\ events < MaxEvents
    /\ \E build_ok \in BOOLEAN : toggle_portal(build_ok)
    /\ event' = "toggle"
    /\ events' = events + 1
    /\ UNCHANGED startup
    /\ PortalFrame

NextPortal == StartupCreate \/ CloseRequest \/ TogglePortal

SpecPortal == InitPortal /\ [][NextPortal]_vars

=============================================================================
